---------------------------- MODULE Spec2Model ----------------------------
(***************************************************************************)
(* The logic_service REST resources Restaurant and Menu:                   *)
(*   logic/models.py       two tables, id = UUID primary key               *)
(*                         (default uuid4, editable=False),                *)
(*                         name = CharField(max_length=255)                *)
(*   logic/serializers.py  ModelSerializer with fields = '__all__'         *)
(*   logic/views.py        ModelViewSet (list/retrieve/create/update/      *)
(*                         partial_update/destroy) over                    *)
(*                         Model.objects.all() and the model's serializer  *)
(*   logic_service/urls.py SimpleRouter: /restaurants/, /menus/, one view  *)
(*                         set of that shape per model                     *)
(* Requests are served by several workers; a handler that first looks the  *)
(* record up and then writes (update, destroy) takes two steps, so other   *)
(* requests may run between its lookup and its write.                      *)
(***************************************************************************)
EXTENDS Integers, Sequences, FiniteSets, TLC

\* ------------------------------------------------------------------ bounds
\* uuid4() is called at most MaxUuids times in a run.
MaxUuids == 2
\* Number of worker processes handling requests concurrently.
NumWorkers == 2

\* ------------------------------------------------------- program constants
\* CharField(max_length=255)
MaxLength == 255

\* router.register(r'restaurants', ...), router.register(r'menus', ...)
Models == {"Restaurant", "Menu"}

\* --------------------------------------------------------------- strings
\* A Python str is modelled by its shape: `lead` whitespace characters, then
\* `core` characters that begin and end with a non-whitespace character,
\* then `trail` whitespace characters; `nul` says whether the core holds a
\* NUL character (a character the field's validators prohibit).
Str(lead, core, trail, nul) ==
    [lead |-> lead, core |-> core, trail |-> trail, nul |-> nul]

Len_(s) == s.lead + s.core + s.trail

\* str.strip()
Strip(s) == Str(0, s.core, 0, s.nul)

EmptyStr == Str(0, 0, 0, FALSE)

\* The strings a client sends as name.
StrInputs ==
    { Str(0, 1, 0, FALSE),                 \* "a"
      Str(1, 1, 0, FALSE),                 \* " a"
      Str(0, 0, 0, FALSE),                 \* ""
      Str(1, 0, 0, FALSE),                 \* " "
      Str(0, MaxLength, 0, FALSE),         \* 255 characters
      Str(0, MaxLength, 1, FALSE),         \* 255 characters and a space
      Str(0, MaxLength + 1, 0, FALSE),     \* 256 characters
      Str(0, 1, 0, TRUE) }                 \* holds a NUL character

\* ------------------------------------------------------------ JSON values
JsonStr(s) == [kind |-> "str", val |-> s]
\* a JSON number of one digit; str() of it is a one-character string
JsonNum == [kind |-> "num", val |-> Str(0, 1, 0, FALSE)]
JsonNull == [kind |-> "null", val |-> EmptyStr]
JsonBool == [kind |-> "bool", val |-> EmptyStr]

NameValues == {JsonStr(s) : s \in StrInputs} \cup {JsonNum, JsonNull, JsonBool}

\* ----------------------------------------------------------------- uuids
\* The k-th value uuid4() returns is modelled as k: 128-bit random values
\* that do not repeat.  NeverId is a well-formed uuid that uuid4() does not
\* return in the run.
Uuids == 1 .. MaxUuids
NeverId == MaxUuids + 1
ClientIds == Uuids \cup {NeverId}

\* A request body is a JSON object; a key it may hold is modelled as a
\* sequence: <<>> when the key is missing, <<v>> when it is there.
Body(id, name) == [id |-> id, name |-> name]

\* The bodies a client sends: every name value and no name, without an id;
\* and an id beside a valid name and beside no name.
Bodies ==
    {Body(<<>>, <<n>>) : n \in NameValues}
    \cup {Body(<<>>, <<>>), Body(<<NeverId>>, <<>>),
          Body(<<NeverId>>, <<JsonStr(Str(0, 1, 0, FALSE))>>)}

\* The bodies sent by the clients that race: two valid names and no name.
RacingBodies ==
    {Body(<<>>, <<>>),
     Body(<<>>, <<JsonStr(Str(0, 1, 0, FALSE))>>),
     Body(<<>>, <<JsonStr(Str(0, MaxLength, 0, FALSE))>>)}

\* ------------------------------------------------------------- the state
VARIABLES
    table,      \* table[m]: the rows of model m's database table
    nextUuid,   \* how many values uuid4() has returned
    worker,     \* worker[w]: the request worker w is in the middle of
    resp,       \* the response sent in the last step, with its request
    everIds,    \* history: everIds[m], ids of every row table[m] ever held
    deleted,    \* history: deleted[m], ids whose DELETE was answered 204
    pristine,   \* history: pristine[m], rows as their create returned them,
                \*          not updated or deleted since
    nCreated,   \* history: nCreated[m], number of creates answered 201
    serial      \* history: the tables had every request run alone, in the
                \*          order of the writes

vars == <<table, nextUuid, worker, resp, everIds, deleted, pristine,
          nCreated, serial>>

Workers == 1 .. NumWorkers

\* class Restaurant / class Menu: a row has an id and a name.
Row(id, name) == [id |-> id, name |-> name]

\* ------------------------------------------------------------ serializer
\* Mutant of ReadOnlyFields: id declared without editable=False.
ReadOnlyFieldsNone == {}

\* ModelSerializer, fields = '__all__': the fields id and name.  A model
\* field with editable=False becomes a read-only serializer field: its key
\* in a request body is not read.
ReadOnlyFields == {"id"}

\* Mutant of CharFieldValid: name declared without max_length.
CharFieldValidNoMaxLength(v) ==
    /\ v.kind \in {"str", "num"}
    /\ Strip(v.val).core > 0
    /\ ~ v.val.nul

\* CharField.run_validation for name: max_length=255, required, allow_null
\* and allow_blank off, trim_whitespace on.  Numbers are coerced with str();
\* a null, a boolean, a blank string (empty once stripped), a string longer
\* than max_length once stripped, and a string with a NUL character fail.
CharFieldValid(v) ==
    /\ v.kind \in {"str", "num"}
    /\ Strip(v.val).core > 0
    /\ Len_(Strip(v.val)) <= MaxLength
    /\ ~ v.val.nul

\* Mutant of CharFieldValue: trim_whitespace=False.
CharFieldValueUntrimmed(v) == v.val

\* CharField.to_internal_value: str(data).strip()
CharFieldValue(v) == Strip(v.val)

\* serializer.is_valid(): a missing name fails unless the update is partial
\* (PATCH); a read-only field is skipped.
IsValid(body, partial) ==
    IF body.name = <<>> THEN partial ELSE CharFieldValid(body.name[1])

\* serializer.validated_data
ValidatedData(body) ==
    [ id   |-> IF "id" \in ReadOnlyFields THEN <<>> ELSE body.id,
      name |-> IF body.name = <<>> THEN <<>>
               ELSE <<CharFieldValue(body.name[1])>> ]

\* serializer.data: the JSON form of a row, {"id": str(id), "name": name}
ToRepresentation(row) == [id |-> row.id, name |-> row.name]

\* --------------------------------------------------------------- the ORM
\* Mutant of Uuid4: default=uuid.uuid4(), one value drawn when the class is
\* defined.
Uuid4Once == CHOOSE u \in Uuids : \A v \in Uuids : u <= v

\* default=uuid.uuid4: the next value of the generator
Uuid4 == nextUuid + 1

\* Mutant of GetObject: falls back to the whole queryset when no row has
\* the primary key.
GetObjectOrAny(tbl, pk) ==
    IF {r \in tbl : r.id = pk} # {} THEN {r \in tbl : r.id = pk} ELSE tbl

\* queryset.get(pk=pk): the rows of the table with this primary key
GetObject(tbl, pk) == {r \in tbl : r.id = pk}

\* Model.objects.create(**validated_data): the new instance; an id that is
\* not given takes its default
NewInstance(data) ==
    Row(IF data.id = <<>> THEN Uuid4 ELSE data.id[1], data.name[1])

\* ModelSerializer.update: setattr(instance, attr, value) for each item of
\* validated_data
SetAttrs(obj, data) ==
    Row(IF data.id = <<>> THEN obj.id ELSE data.id[1],
        IF data.name = <<>> THEN obj.name ELSE data.name[1])

\* Mutant of Save: an UPDATE without its WHERE clause.
SaveEveryRow(tbl, inst) == {Row(r.id, inst.name) : r \in tbl} \cup {inst}

\* instance.save() of an instance read from the table: UPDATE ... WHERE
\* id = pk, and an INSERT when the UPDATE matched no row.
Save(tbl, inst) ==
    IF GetObject(tbl, inst.id) # {}
    THEN (tbl \ GetObject(tbl, inst.id)) \cup {inst}
    ELSE tbl \cup {inst}

\* instance.delete(): DELETE ... WHERE id = pk
Delete(tbl, inst) == tbl \ GetObject(tbl, inst.id)

\* --------------------------------------------------- requests run alone
\* What a whole update request does to a table when nothing runs between
\* its lookup and its write.
SerialUpdate(tbl, pk, data) ==
    IF GetObject(tbl, pk) = {} THEN tbl
    ELSE Save(tbl, SetAttrs(CHOOSE r \in GetObject(tbl, pk) : TRUE, data))

SerialDelete(tbl, pk) == tbl \ GetObject(tbl, pk)

\* -------------------------------------------------------------- requests
NoBody == Body(<<>>, <<>>)

Idle == [pc |-> "idle", model |-> "Restaurant", pk |-> NeverId, obj |-> <<>>,
         partial |-> FALSE, body |-> NoBody]

\* A response, with the request it answers: the operation, the model of the
\* route, the id in the path (<<>> on a collection route), PATCH or not, the
\* body sent; and the status and the JSON records of the response body.
Response(op, m, pk, partial, body, status, data) ==
    [op |-> op, model |-> m, pk |-> pk, partial |-> partial, body |-> body,
     status |-> status, data |-> data]

\* No response was sent in the last step: nothing has happened yet, or a
\* handler has looked its record up and has not written yet.
NoResponse == Response("none", "Restaurant", <<>>, FALSE, NoBody, 200, <<>>)

\* The workers are alike: a request that arrives is taken by the first idle
\* one.
FirstIdle(w) ==
    /\ worker[w] = Idle
    /\ \A v \in Workers : v < w => worker[v] # Idle

\* The orders in which a SELECT without ORDER BY may return the rows.
Orderings(S) ==
    {f \in [1 .. Cardinality(S) -> S] :
        \A i, j \in 1 .. Cardinality(S) : i # j => f[i] # f[j]}

\* Mutant of ListQueryset: a page of one row.
ListQuerysetFirstPage(tbl) ==
    IF tbl = {} THEN {} ELSE {CHOOSE r \in tbl : TRUE}

\* queryset = Model.objects.all(), no pagination class: the rows a list
\* request serializes
ListQueryset(tbl) == tbl

History(m, tbl, del, pris, n, ser) ==
    /\ everIds' = [everIds EXCEPT ![m] = @ \cup {r.id : r \in tbl}]
    /\ deleted' = [deleted EXCEPT ![m] = del]
    /\ pristine' = [pristine EXCEPT ![m] = pris]
    /\ nCreated' = [nCreated EXCEPT ![m] = n]
    /\ serial' = [serial EXCEPT ![m] = ser]

NoWrite == UNCHANGED <<table, nextUuid, everIds, deleted, pristine, nCreated,
                       serial>>

\* GET /{resource}/ : ListModelMixin.list
List(m) ==
    /\ \E order \in Orderings(ListQueryset(table[m])) :
         resp' = Response("list", m, <<>>, FALSE, NoBody, 200,
                          [i \in DOMAIN order |-> ToRepresentation(order[i])])
    /\ NoWrite
    /\ UNCHANGED worker

\* GET /{resource}/{pk}/ : RetrieveModelMixin.retrieve
Retrieve(m, pk) ==
    /\ resp' = IF GetObject(table[m], pk) = {}
               THEN Response("retrieve", m, <<pk>>, FALSE, NoBody, 404, <<>>)
               ELSE Response("retrieve", m, <<pk>>, FALSE, NoBody, 200,
                             <<ToRepresentation(
                                 CHOOSE r \in GetObject(table[m], pk) : TRUE)>>)
    /\ NoWrite
    /\ UNCHANGED worker

\* POST /{resource}/ : CreateModelMixin.create.  is_valid(raise_exception),
\* then serializer.save() -> Model.objects.create(): one INSERT, which the
\* primary key constraint refuses (IntegrityError, 500) when the id is that
\* of a row of the table.
Create(m, body) ==
    /\ UNCHANGED worker
    /\ IF ~ IsValid(body, FALSE)
       THEN /\ resp' = Response("create", m, <<>>, FALSE, body, 400, <<>>)
            /\ NoWrite
       ELSE LET inst == NewInstance(ValidatedData(body)) IN
            /\ nextUuid < MaxUuids
            /\ nextUuid' = IF ValidatedData(body).id = <<>>
                           THEN nextUuid + 1 ELSE nextUuid
            /\ IF GetObject(table[m], inst.id) # {}
               THEN /\ resp' = Response("create", m, <<>>, FALSE, body, 500,
                                        <<>>)
                    /\ UNCHANGED <<table, everIds, deleted, pristine,
                                   nCreated, serial>>
               ELSE /\ table' = [table EXCEPT ![m] = @ \cup {inst}]
                    /\ resp' = Response("create", m, <<>>, FALSE, body, 201,
                                        <<ToRepresentation(inst)>>)
                    /\ History(m, table'[m], deleted[m],
                               pristine[m] \cup {ToRepresentation(inst)},
                               nCreated[m] + 1, serial[m] \cup {inst})

\* PUT/PATCH /{resource}/{pk}/ : UpdateModelMixin.update, up to its write.
\* get_object() comes first (404), then is_valid(raise_exception) (400).
UpdateBegin(w, m, pk, partial, body) ==
    /\ FirstIdle(w)
    /\ NoWrite
    /\ IF GetObject(table[m], pk) = {}
       THEN /\ resp' = Response("update", m, <<pk>>, partial, body, 404, <<>>)
            /\ UNCHANGED worker
       ELSE IF ~ IsValid(body, partial)
       THEN /\ resp' = Response("update", m, <<pk>>, partial, body, 400, <<>>)
            /\ UNCHANGED worker
       ELSE /\ worker' = [worker EXCEPT ![w] =
                 [pc |-> "update", model |-> m, pk |-> pk,
                  obj |-> <<CHOOSE r \in GetObject(table[m], pk) : TRUE>>,
                  partial |-> partial, body |-> body]]
            /\ resp' = NoResponse

\* serializer.save() -> ModelSerializer.update: setattr, then
\* instance.save(); the response carries the instance as saved.
UpdateWrite(w) ==
    LET rq == worker[w]
        m == rq.model
        inst == SetAttrs(rq.obj[1], ValidatedData(rq.body)) IN
    /\ rq.pc = "update"
    /\ table' = [table EXCEPT ![m] = Save(@, inst)]
    /\ worker' = [worker EXCEPT ![w] = Idle]
    /\ resp' = Response("update", m, <<rq.pk>>, rq.partial, rq.body, 200,
                        <<ToRepresentation(inst)>>)
    /\ History(m, table'[m], deleted[m],
               {r \in pristine[m] : r.id # rq.pk}, nCreated[m],
               SerialUpdate(serial[m], rq.pk, ValidatedData(rq.body)))
    /\ UNCHANGED nextUuid

\* DELETE /{resource}/{pk}/ : DestroyModelMixin.destroy, up to its write.
DestroyBegin(w, m, pk) ==
    /\ FirstIdle(w)
    /\ NoWrite
    /\ IF GetObject(table[m], pk) = {}
       THEN /\ resp' = Response("destroy", m, <<pk>>, FALSE, NoBody, 404, <<>>)
            /\ UNCHANGED worker
       ELSE /\ worker' = [worker EXCEPT ![w] =
                 [pc |-> "destroy", model |-> m, pk |-> pk,
                  obj |-> <<CHOOSE r \in GetObject(table[m], pk) : TRUE>>,
                  partial |-> FALSE, body |-> NoBody]]
            /\ resp' = NoResponse

\* perform_destroy: instance.delete(), then 204.
DestroyWrite(w) ==
    LET rq == worker[w]
        m == rq.model IN
    /\ rq.pc = "destroy"
    /\ table' = [table EXCEPT ![m] = Delete(@, rq.obj[1])]
    /\ worker' = [worker EXCEPT ![w] = Idle]
    /\ resp' = Response("destroy", m, <<rq.pk>>, FALSE, NoBody, 204, <<>>)
    /\ History(m, table'[m], deleted[m] \cup {rq.pk},
               {r \in pristine[m] : r.id # rq.pk}, nCreated[m],
               SerialDelete(serial[m], rq.pk))
    /\ UNCHANGED nextUuid

\* ------------------------------------------------------ the specification
\* The service starts with empty tables and idle workers.
Init ==
    /\ table = [m \in Models |-> {}]
    /\ nextUuid = 0
    /\ worker = [w \in Workers |-> Idle]
    /\ resp = NoResponse
    /\ everIds = [m \in Models |-> {}]
    /\ deleted = [m \in Models |-> {}]
    /\ pristine = [m \in Models |-> {}]
    /\ nCreated = [m \in Models |-> 0]
    /\ serial = [m \in Models |-> {}]

Step(W, B, P) ==
    \/ \E m \in Models : List(m)
    \/ \E m \in Models, pk \in ClientIds : Retrieve(m, pk)
    \/ \E m \in Models, body \in B : Create(m, body)
    \/ \E w \in W, m \in Models, pk \in ClientIds, partial \in P, body \in B :
          UpdateBegin(w, m, pk, partial, body)
    \/ \E w \in W : UpdateWrite(w)
    \/ \E w \in W, m \in Models, pk \in ClientIds : DestroyBegin(w, m, pk)
    \/ \E w \in W : DestroyWrite(w)

\* Every worker serves requests; the bodies are the racing clients', and
\* their updates are PATCH requests.
Next == Step(Workers, RacingBodies, {TRUE})

Spec == Init /\ [][Next]_vars

\* One worker serves requests with every body, PUT and PATCH.
NextBodies == Step({w \in Workers : \A v \in Workers : w <= v}, Bodies, BOOLEAN)

SpecBodies == Init /\ [][NextBodies]_vars

\* ================================================================= claims
Ids(tbl) == {r.id : r \in tbl}

OtherModels(m) == Models \ {m}

\* The request answered in this step sent a name that is a string.
SentString(r) == r.body.name # <<>> /\ r.body.name[1].kind = "str"

SentName(r) == r.body.name[1].val

\* ---------------------------------------------------------------------- C1
\* C1 as stated: a create whose name is a string of length 1..255 is
\* answered 201 with a record whose name equals the name sent.
C1_AsStated ==
    (resp.op = "create" /\ SentString(resp)
        /\ Len_(SentName(resp)) \in 1 .. MaxLength)
    => (resp.status = 201 /\ Len(resp.data) = 1
        /\ resp.data[1].name = SentName(resp))

\* The name sent, with the whitespace around it removed, has 1..255
\* characters, none of them NUL.
C1_Accepted(r) ==
    /\ SentString(r)
    /\ SentName(r).core \in 1 .. MaxLength
    /\ ~ SentName(r).nul

\* C1, amended: a create whose name, a string, has 1..255 characters once
\* the whitespace around it is removed, and no NUL character, is answered
\* 201 with a record whose name is the name sent without the whitespace
\* around it and whose id is fresh (the id of no record the model's table
\* holds or ever held); the table afterwards holds its previous rows and
\* this record, and the other table is as it was.
C1_CreateReturnsFreshRecord ==
    [][ (resp'.op = "create" /\ C1_Accepted(resp'))
        => /\ resp'.status = 201
           /\ Len(resp'.data) = 1
           /\ resp'.data[1].name.lead = 0
           /\ resp'.data[1].name.trail = 0
           /\ resp'.data[1].name.core = SentName(resp').core
           /\ resp'.data[1].id \notin everIds[resp'.model]
           /\ resp'.data[1].id \notin Ids(table[resp'.model])
           /\ table'[resp'.model] = table[resp'.model]
                \cup {Row(resp'.data[1].id, resp'.data[1].name)}
           /\ \A o \in OtherModels(resp'.model) : table'[o] = table[o]
      ]_vars

\* A create was answered 201 for a name sent with whitespace before it, and
\* the table held a record already.
C1_Witness ==
    /\ resp.op = "create" /\ resp.status = 201
    /\ C1_Accepted(resp) /\ SentName(resp).lead > 0
    /\ Cardinality(table[resp.model]) = 2

\* ---------------------------------------------------------------------- C2
\* C2: once a DELETE of an id has been answered 204, every retrieve of that
\* id is answered 404, whatever requests ran or were under way meanwhile.
C2_DeletedStaysDeleted ==
    (resp.op = "retrieve" /\ resp.pk[1] \in deleted[resp.model])
    => resp.status = 404

\* ---------------------------------------------------------------------- C3
\* The handler answered in the step in which it looked the record up.
C3_AnsweredAtLookup(m, pk) ==
    /\ resp'.op = "update" /\ resp'.model = m /\ resp'.pk = <<pk>>
    /\ worker' = worker

\* C3: an update (PUT or PATCH) that finds no row with the id of its path
\* is answered 404 and writes nothing: no table changes, and no worker goes
\* on to write for an id that its lookup did not find.
C3_UpdateOfAbsentIdIsNotFound ==
    [][ /\ \A m \in Models, pk \in ClientIds :
             (C3_AnsweredAtLookup(m, pk) /\ pk \notin Ids(table[m]))
             => (resp'.status = 404 /\ table' = table)
        /\ \A w \in Workers :
             (worker[w].pc = "idle" /\ worker'[w].pc = "update")
             => worker'[w].pk \in Ids(table[worker'[w].model])
      ]_vars

\* A PUT with a name of 256 characters was answered 404 while the table of
\* its model held another record.
C3_Witness ==
    /\ resp.op = "update" /\ resp.status = 404 /\ ~ resp.partial
    /\ SentString(resp) /\ SentName(resp).core > MaxLength
    /\ resp.pk[1] \notin Ids(table[resp.model])
    /\ table[resp.model] # {}

\* ---------------------------------------------------------------------- C4
\* No two rows of a table have the same id.
C4_UniqueIds ==
    \A m \in Models : \A r1, r2 \in table[m] : r1.id = r2.id => r1 = r2

\* C4: no two records of a model share an id; a create gives its record an
\* id that no record of the model has or ever had; and an update or a
\* delete brings no id into the table but the id of its path.
C4_IdsUniqueAndNeverReassigned ==
    /\ []C4_UniqueIds
    /\ [][ /\ (resp'.op = "create" /\ resp'.status = 201)
              => resp'.data[1].id \notin everIds[resp'.model]
           /\ \A m \in Models :
                \/ Ids(table'[m]) \subseteq Ids(table[m])
                \/ /\ resp'.op = "create" /\ resp'.model = m
                   /\ Ids(table'[m]) = Ids(table[m]) \cup {resp'.data[1].id}
                \/ /\ resp'.op = "update" /\ resp'.model = m
                   /\ Ids(table'[m]) = Ids(table[m]) \cup {resp'.pk[1]}
         ]_vars

\* A create was answered 201 for a model one of whose records had been
\* deleted and was gone.
C4_Witness ==
    /\ resp.op = "create" /\ resp.status = 201
    /\ \E d \in deleted[resp.model] : d \notin Ids(table[resp.model])

\* ---------------------------------------------------------------------- C5
\* C5: an id in the body of a create or an update is not read.  The id sent
\* is the id of no row of any table; a create that sent one is answered with
\* the id the server generated, and an update that sent one is answered
\* with the id of its path, under which the row is stored.
C5_BodyIdIgnored ==
    /\ [](\A m \in Models : NeverId \notin Ids(table[m]))
    /\ [][ (resp'.body.id # <<>> /\ resp'.status \in {200, 201})
           => /\ resp'.data[1].id # resp'.body.id[1]
              /\ resp'.op = "create" => resp'.data[1].id = nextUuid + 1
              /\ resp'.op = "update"
                   => /\ resp'.data[1].id = resp'.pk[1]
                      /\ Row(resp'.pk[1], resp'.data[1].name)
                           \in table'[resp'.model]
         ]_vars

\* An update that sent an id and a name was answered 200.
C5_Witness ==
    /\ resp.op = "update" /\ resp.status = 200
    /\ resp.body.id # <<>> /\ resp.body.name # <<>>

C6_BadName(r) ==
    /\ r.body.name # <<>>
    /\ \/ r.body.name[1].kind \in {"null", "bool"}
       \/ SentName(r).core = 0
       \/ SentName(r).core > MaxLength
       \/ SentName(r).nul

Records(r) == {r.data[i] : i \in DOMAIN r.data}

\* C7: a list request is answered 200 with every record of the model's
\* table, each once, and nothing else; after N creates answered 201 and no
\* delete answered 204, these are N records.
C7_ListIsTheTable ==
    resp.op = "list"
    => /\ resp.status = 200
       /\ \A i, j \in DOMAIN resp.data :
            resp.data[i] = resp.data[j] => i = j
       /\ Records(resp) = {Row(r.id, r.name) : r \in table[resp.model]}
       /\ deleted[resp.model] = {} => Len(resp.data) = nCreated[resp.model]

\* A list was answered with two records after two creates and no delete.
C7_Witness ==
    /\ resp.op = "list" /\ Len(resp.data) = 2
    /\ nCreated[resp.model] = 2 /\ deleted[resp.model] = {}

\* ---------------------------------------------------------------------- C8
\* C8: a retrieve by the id a create returned, with no update or delete of
\* that id answered since, is answered 200 with the record as the create
\* returned it.
C8_RetrieveReturnsCreated ==
    \A c \in pristine[resp.model] :
        (resp.op = "retrieve" /\ resp.pk = <<c.id>>)
        => (resp.status = 200 /\ resp.data = <<c>>)

\* A record was retrieved as created while another record of its model had
\* been updated since its own creation.
C8_Witness ==
    /\ resp.op = "retrieve" /\ resp.status = 200
    /\ \E c \in pristine[resp.model] : resp.pk = <<c.id>>
    /\ \E r \in table[resp.model] :
         r.id # resp.pk[1] /\ r \notin pristine[resp.model]

\* ---------------------------------------------------------------------- C9
\* C9: the tables are what they would be had the requests run one after
\* another, whole, in the order of their writes.
C9_LastWriteWins == table = serial

\* --------------------------------------------------------------------- C10
\* C10: a request changes no table but that of its model; an update or a
\* delete leaves every row with another id as it was; and an update leaves
\* the number of rows as it was.
C10_OnlyTheAddressedRecord ==
    [][ /\ \A o \in OtherModels(resp'.model) : table'[o] = table[o]
        /\ resp'.op \in {"update", "destroy"}
             => {r \in table'[resp'.model] : r.id # resp'.pk[1]}
                  = {r \in table[resp'.model] : r.id # resp'.pk[1]}
        /\ resp'.op = "update"
             => Cardinality(table'[resp'.model])
                  = Cardinality(table[resp'.model])
      ]_vars

=============================================================================
